---- MODULE Spec2Model ----
(***************************************************************************)
(* memoized_kerney: a memoizing cache in front of the inverse geodesic     *)
(* solver (src/src/lib.rs).  The model covers Position's comparison and    *)
(* equality, DistanceData::swap_azimuth, the shared DISTANCE_CACHE (a moka *)
(* cache with time-to-idle expiry behind a tokio RwLock), and the two      *)
(* public entry points distance and uncached_distance, with distance split *)
(* at its suspension points so that concurrent calls interleave.           *)
(***************************************************************************)
EXTENDS Integers, Sequences, FiniteSets, TLC

(* ------------------------------ bounds -------------------------------- *)

\* number of concurrent callers
NumProcs == 2
\* total number of distance / uncached_distance calls started in one run
MaxCalls == 3
\* seconds of wall-clock time that pass in one Tick
TickSecs == 45

Procs == 1..NumProcs

(* ------------------------ program constants --------------------------- *)

\* lib.rs:103  .time_to_idle(Duration::from_secs(90))
TimeToIdleSecs == 90
\* lib.rs:104  .initial_capacity(64)
InitialCapacity == 64
\* lib.rs:105  .max_capacity(65356)
MaxCapacity == 65356

(* ------------------------------ f64 ----------------------------------- *)

\* The f64 values the callers draw coordinates from, each named by its bit
\* pattern: -0.0 and +0.0 are different bit patterns of the same number, NaN
\* is a bit pattern that is no number.
Floats == {"-0.0", "+0.0", "1.0", "NaN"}

F64IsNaN(x) == x = "NaN"

\* the number a non-NaN bit pattern denotes
F64Num(x) == IF x = "1.0" THEN 1 ELSE 0

\* f64::partial_cmp: IEEE comparison; None when either side is NaN, and
\* -0.0 compares Equal to +0.0.
F64PartialCmp(x, y) ==
    IF F64IsNaN(x) \/ F64IsNaN(y) THEN "None"
    ELSE IF F64Num(x) < F64Num(y) THEN "Less"
    ELSE IF F64Num(x) > F64Num(y) THEN "Greater"
    ELSE "Equal"

\* f64::to_ne_bytes equality: equality of bit patterns
F64BitsEq(x, y) == x = y

(* ---------------------------- Position -------------------------------- *)

\* Position::new
Position(lat, lon) == [lat |-> lat, lon |-> lon]

\* the positions callers pass in
Positions ==
    { Position("+0.0", "1.0"), Position("-0.0", "1.0"),
      Position("1.0", "-0.0"), Position("NaN", "1.0") }

\* impl PartialEq for Position: both coordinates bit-identical
PositionEq(a, b) == F64BitsEq(a.lat, b.lat) /\ F64BitsEq(a.lon, b.lon)

\* #[derive(PartialOrd)] on Position: lexicographic partial_cmp on (lat, lon)
PositionPartialCmp(a, b) ==
    LET c == F64PartialCmp(a.lat, b.lat)
    IN  IF c = "Equal" THEN F64PartialCmp(a.lon, b.lon) ELSE c

\* a > b, as PartialOrd::gt: partial_cmp is Some(Greater)
PositionGt(a, b) == PositionPartialCmp(a, b) = "Greater"

\* a < b, as PartialOrd::lt: partial_cmp is Some(Less)
PositionLt(a, b) == PositionPartialCmp(a, b) = "Less"

\* a <= b, as PartialOrd::le: partial_cmp is Some(Less) or Some(Equal)
PositionLe(a, b) == PositionPartialCmp(a, b) \in {"Less", "Equal"}

\* latitude and longitude are finite numbers (the solver's valid inputs)
ValidPosition(a) == ~F64IsNaN(a.lat) /\ ~F64IsNaN(a.lon)

(* --------------------------- DistanceData ------------------------------ *)

\* the value a caller holds before it has computed anything
NoDist == [distance |-> <<"none">>, forward_azimuth |-> <<"none">>,
           backward_azimuth |-> <<"none">>]

\* Geodesic::wgs84().inverse(lat1, lon1, lat2, lon2): the external solver, a
\* pure function of the ordered pair it is called on; its three outputs are
\* kept as terms over that pair.
Inverse(p1, p2) ==
    [s12 |-> <<"s12", p1, p2>>, azi_1 |-> <<"azi1", p1, p2>>,
     azi_2 |-> <<"azi2", p1, p2>>]

\* a swap written as two assignments without a temporary: the forward
\* azimuth is overwritten before it is copied
swap_azimuth_overwriting(d, should_swap) ==
    IF should_swap
    THEN [d EXCEPT !.forward_azimuth = d.backward_azimuth]
    ELSE d

\* DistanceData::swap_azimuth
swap_azimuth(d, should_swap) ==
    IF should_swap
    THEN [d EXCEPT !.forward_azimuth = d.backward_azimuth,
                   !.backward_azimuth = d.forward_azimuth]
    ELSE d

(* ------------------------- canonicalization ---------------------------- *)

\* let flip = a_pos > b_pos;
Flip(a, b) == PositionGt(a, b)

\* let tup = if flip { (b_pos, a_pos) } else { (a_pos, b_pos) };
Tup(a, b) == IF Flip(a, b) THEN <<b, a>> ELSE <<a, b>>

\* DistanceData { distance: s12, forward_azimuth: azi_1, backward_azimuth: azi_2 }
DistanceData(r) ==
    [distance |-> r.s12, forward_azimuth |-> r.azi_1, backward_azimuth |-> r.azi_2]

\* uncached_distance: canonicalize, solve on tup, swap back
uncached_distance(a, b) ==
    LET flip_ == Flip(a, b)
        tup_  == Tup(a, b)
        dist_ == DistanceData(Inverse(tup_[1], tup_[2]))
    IN  swap_azimuth(dist_, flip_)

(* ------------------------------ cache ---------------------------------- *)

\* the configuration DISTANCE_CACHE is built with
CacheConfig ==
    [time_to_idle |-> TimeToIdleSecs, initial_capacity |-> InitialCapacity,
     max_capacity |-> MaxCapacity]

\* idle times are tracked up to one second past the time-to-idle
IdleCap(cfg) == cfg.time_to_idle + 1

\* a cache built without time_to_idle: nothing ever expires
ExpiredNever(cfg, e) == FALSE

\* an entry is expired once it has been idle for the time-to-idle
Expired(cfg, e) == e.idle >= cfg.time_to_idle

\* the key has an entry that a lookup returns
Live(cfg, c, k) == k \in DOMAIN c /\ ~Expired(cfg, c[k])

\* Cache::get: the cache after the lookup; a hit resets the entry's idle time
CacheAfterGet(cfg, c, k) ==
    IF Live(cfg, c, k) THEN [c EXCEPT ![k].idle = 0] ELSE c

\* Cache::insert: the entry is (over)written and its idle time starts at 0
CacheInsert(c, k, v) ==
    [x \in DOMAIN c \cup {k} |-> IF x = k THEN [value |-> v, idle |-> 0] ELSE c[x]]

\* time passing: every entry's idle time grows
CacheAge(cfg, c, secs) ==
    [x \in DOMAIN c |->
        [c[x] EXCEPT !.idle = IF c[x].idle + secs > IdleCap(cfg)
                               THEN IdleCap(cfg) ELSE c[x].idle + secs]]

\* the cache's maintenance: expired entries are removed
CachePurge(cfg, c) ==
    [x \in {k \in DOMAIN c : ~Expired(cfg, c[k])} |-> c[x]]

(* ------------------------------ state ---------------------------------- *)

VARIABLES
    pair,       \* the two positions this run's callers pass, in one order or the other
    config,     \* configuration of DISTANCE_CACHE
    cache,      \* the moka cache: key -> [value, idle]
    readers,    \* callers holding a read guard of the RwLock
    writer,     \* callers holding the write guard (at most one)
    waiters,    \* the RwLock's FIFO wait queue: <<caller, "read" | "write">>
    pc,         \* where each caller is
    kind,       \* which entry point the caller's current call is
    a_pos,      \* the call's first argument
    b_pos,      \* the call's second argument
    flip,       \* the call's local flip
    tup,        \* the call's local tup
    dist,       \* the call's local dist; the returned value when pc = "done"
    solved,     \* the pairs the solver was invoked on in the caller's current call
    calls       \* number of calls started

vars == <<pair, config, cache, readers, writer, waiters, pc, kind, a_pos, b_pos,
          flip, tup, dist, solved, calls>>

lock == <<readers, writer, waiters>>
locals == <<a_pos, b_pos, flip, tup>>

\* the argument lists a call is made with: the pair, in either order
CallArgs == {<<pair[1], pair[2]>>, <<pair[2], pair[1]>>}

Init ==
    /\ pair \in Positions \X Positions
    /\ config = CacheConfig
    /\ cache = <<>>
    /\ readers = {}
    /\ writer = {}
    /\ waiters = <<>>
    /\ pc = [p \in Procs |-> "idle"]
    /\ kind = [p \in Procs |-> "none"]
    /\ a_pos = [p \in Procs |-> Position("1.0", "-0.0")]
    /\ b_pos = [p \in Procs |-> Position("1.0", "-0.0")]
    /\ flip = [p \in Procs |-> FALSE]
    /\ tup = [p \in Procs |-> <<Position("1.0", "-0.0"), Position("1.0", "-0.0")>>]
    /\ dist = [p \in Procs |-> NoDist]
    /\ solved = [p \in Procs |-> {}]
    /\ calls = 0

(* ----------------------------- RwLock ---------------------------------- *)

\* RwLock::read() / write() succeed at once when nothing conflicts and nobody
\* is queued; otherwise the caller joins the FIFO queue (tokio's RwLock is fair:
\* a queued writer keeps later readers out).
CanRead == writer = {} /\ waiters = <<>>

\* a write() that does not wait for the readers to leave
CanWriteIgnoringReaders == writer = {} /\ waiters = <<>>

CanWrite == writer = {} /\ readers = {} /\ waiters = <<>>

\* the read guard bound to a local that outlives the match: it is still held
DropReadGuardKept(rs, p) == rs

\* the read guard is dropped
DropReadGuard(rs, p) == rs \ {p}

\* the write guard leaked (never dropped): the lock stays write-locked
DropWriteGuardKept(ws, p) == ws

\* the write guard is dropped
DropWriteGuard(ws, p) == ws \ {p}

(* ------------------------- distance, step by step --------------------- *)

\* lib.rs:157-164: a call starts; into_position, flip and tup are computed
Start(p, a, b) ==
    /\ pc[p] \in {"idle", "done"}
    /\ calls < MaxCalls
    /\ calls' = calls + 1
    /\ kind' = [kind EXCEPT ![p] = "distance"]
    /\ a_pos' = [a_pos EXCEPT ![p] = a]
    /\ b_pos' = [b_pos EXCEPT ![p] = b]
    /\ flip' = [flip EXCEPT ![p] = Flip(a, b)]
    /\ tup' = [tup EXCEPT ![p] = Tup(a, b)]
    /\ dist' = [dist EXCEPT ![p] = NoDist]
    /\ solved' = [solved EXCEPT ![p] = {}]
    /\ pc' = [pc EXCEPT ![p] = "read"]
    /\ UNCHANGED <<pair, config, cache, lock>>

\* lib.rs:166  DISTANCE_CACHE.read().await: acquired at once, or queued
ReadAcquire(p) ==
    /\ pc[p] = "read"
    /\ IF CanRead
       THEN /\ readers' = readers \cup {p}
            /\ pc' = [pc EXCEPT ![p] = "get"]
            /\ UNCHANGED waiters
       ELSE /\ waiters' = Append(waiters, <<p, "read">>)
            /\ pc' = [pc EXCEPT ![p] = "read_wait"]
            /\ UNCHANGED readers
    /\ UNCHANGED <<pair, config, cache, writer, kind, locals, dist, solved,
                   calls>>

\* lib.rs:166  a queued read() is granted: head of the queue, no writer
ReadGranted(p) ==
    /\ pc[p] = "read_wait"
    /\ waiters # <<>> /\ Head(waiters) = <<p, "read">>
    /\ writer = {}
    /\ waiters' = Tail(waiters)
    /\ readers' = readers \cup {p}
    /\ pc' = [pc EXCEPT ![p] = "get"]
    /\ UNCHANGED <<pair, config, cache, writer, kind, locals, dist, solved,
                   calls>>

\* lib.rs:166-171  .get(&tup).await under the read guard: Some(dist) or None
Get(p) ==
    /\ pc[p] = "get"
    /\ p \in readers
    /\ IF Live(config, cache, tup[p])
       THEN /\ dist' = [dist EXCEPT ![p] = cache[tup[p]].value]
            /\ pc' = [pc EXCEPT ![p] = "hit"]
       ELSE /\ pc' = [pc EXCEPT ![p] = "miss"]
            /\ UNCHANGED dist
    /\ cache' = CacheAfterGet(config, cache, tup[p])
    /\ UNCHANGED <<pair, config, lock, kind, locals, solved, calls>>

\* the hit arm returning the stored value without swap_azimuth
HitReturnNoSwap(p) ==
    /\ pc[p] = "hit"
    /\ readers' = DropReadGuard(readers, p)
    /\ pc' = [pc EXCEPT ![p] = "done"]
    /\ UNCHANGED <<pair, config, cache, writer, waiters, kind, locals, dist, solved,
                   calls>>

\* the hit arm writing the value it returns back into the cache
HitReturnReinserting(p) ==
    /\ pc[p] = "hit"
    /\ dist' = [dist EXCEPT ![p] = swap_azimuth(dist[p], flip[p])]
    /\ cache' = CacheInsert(cache, tup[p], swap_azimuth(dist[p], flip[p]))
    /\ readers' = DropReadGuard(readers, p)
    /\ pc' = [pc EXCEPT ![p] = "done"]
    /\ UNCHANGED <<pair, config, writer, waiters, kind, locals, solved, calls>>

\* lib.rs:167-170  the hit arm: swap_azimuth(flip) and return; the read
\* guard, a temporary of the match scrutinee, is dropped on the way out
HitReturn(p) ==
    /\ pc[p] = "hit"
    /\ dist' = [dist EXCEPT ![p] = swap_azimuth(dist[p], flip[p])]
    /\ readers' = DropReadGuard(readers, p)
    /\ pc' = [pc EXCEPT ![p] = "done"]
    /\ UNCHANGED <<pair, config, cache, writer, waiters, kind, locals, solved,
                   calls>>

\* the None arm with the read guard bound to a local that lives to the end
\* of the function: the guard is still held when the solver runs
MissDropHolding(p) ==
    /\ pc[p] = "miss"
    /\ pc' = [pc EXCEPT ![p] = "solve"]
    /\ UNCHANGED <<pair, config, cache, lock, kind, locals, dist, solved, calls>>

\* lib.rs:171-172  the None arm: the match statement ends and the read guard
\* is dropped
MissDrop(p) ==
    /\ pc[p] = "miss"
    /\ readers' = DropReadGuard(readers, p)
    /\ pc' = [pc EXCEPT ![p] = "solve"]
    /\ UNCHANGED <<pair, config, cache, writer, waiters, kind, locals, dist, solved,
                   calls>>

\* the miss path calling uncached_distance on the caller's arguments instead
\* of tup: the result comes back already oriented to the caller
SolveOnArgs(p) ==
    /\ pc[p] = "solve"
    /\ dist' = [dist EXCEPT ![p] = uncached_distance(a_pos[p], b_pos[p])]
    /\ solved' = [solved EXCEPT ![p] = solved[p] \cup {Tup(a_pos[p], b_pos[p])}]
    /\ pc' = [pc EXCEPT ![p] = "write"]
    /\ UNCHANGED <<pair, config, cache, lock, kind, locals, calls>>

\* lib.rs:173  let mut dist = uncached_distance(&tup.0, &tup.1);
Solve(p) ==
    /\ pc[p] = "solve"
    /\ dist' = [dist EXCEPT ![p] = uncached_distance(tup[p][1], tup[p][2])]
    /\ solved' = [solved EXCEPT ![p] = solved[p] \cup {Tup(tup[p][1], tup[p][2])}]
    /\ pc' = [pc EXCEPT ![p] = "write"]
    /\ UNCHANGED <<pair, config, cache, lock, kind, locals, calls>>

\* lib.rs:174  DISTANCE_CACHE.write().await: acquired at once, or queued
WriteAcquire(p) ==
    /\ pc[p] = "write"
    /\ IF CanWrite
       THEN /\ writer' = writer \cup {p}
            /\ pc' = [pc EXCEPT ![p] = "insert"]
            /\ UNCHANGED waiters
       ELSE /\ waiters' = Append(waiters, <<p, "write">>)
            /\ pc' = [pc EXCEPT ![p] = "write_wait"]
            /\ UNCHANGED writer
    /\ UNCHANGED <<pair, config, cache, readers, kind, locals, dist, solved,
                   calls>>

\* lib.rs:174  a queued write() is granted: head of the queue, lock free
WriteGranted(p) ==
    /\ pc[p] = "write_wait"
    /\ waiters # <<>> /\ Head(waiters) = <<p, "write">>
    /\ writer = {} /\ readers = {}
    /\ waiters' = Tail(waiters)
    /\ writer' = writer \cup {p}
    /\ pc' = [pc EXCEPT ![p] = "insert"]
    /\ UNCHANGED <<pair, config, cache, readers, kind, locals, dist, solved,
                   calls>>

\* the insert placed after swap_azimuth: the caller's oriented copy is stored
InsertAfterSwap(p) ==
    /\ pc[p] = "insert"
    /\ p \in writer
    /\ cache' = CacheInsert(cache, tup[p], swap_azimuth(dist[p], flip[p]))
    /\ pc' = [pc EXCEPT ![p] = "inserted"]
    /\ UNCHANGED <<pair, config, lock, kind, locals, dist, solved, calls>>

\* lib.rs:174  .insert(tup, dist.clone()).await under the write guard
Insert(p) ==
    /\ pc[p] = "insert"
    /\ p \in writer
    /\ cache' = CacheInsert(cache, tup[p], dist[p])
    /\ pc' = [pc EXCEPT ![p] = "inserted"]
    /\ UNCHANGED <<pair, config, lock, kind, locals, dist, solved, calls>>

\* lib.rs:174  end of the statement: the write guard is dropped
WriteDrop(p) ==
    /\ pc[p] = "inserted"
    /\ writer' = DropWriteGuard(writer, p)
    /\ pc' = [pc EXCEPT ![p] = "swap"]
    /\ UNCHANGED <<pair, config, cache, readers, waiters, kind, locals, dist, solved,
                   calls>>

\* lib.rs:176-177  dist.swap_azimuth(flip); dist
Return(p) ==
    /\ pc[p] = "swap"
    /\ dist' = [dist EXCEPT ![p] = swap_azimuth(dist[p], flip[p])]
    /\ pc' = [pc EXCEPT ![p] = "done"]
    /\ UNCHANGED <<pair, config, cache, lock, kind, locals, solved, calls>>

(* -------------------------- uncached_distance -------------------------- *)

\* uncached_distance storing its result in DISTANCE_CACHE
UncachedStoring(p, a, b) ==
    /\ pc[p] \in {"idle", "done"}
    /\ calls < MaxCalls
    /\ calls' = calls + 1
    /\ kind' = [kind EXCEPT ![p] = "uncached_distance"]
    /\ a_pos' = [a_pos EXCEPT ![p] = a]
    /\ b_pos' = [b_pos EXCEPT ![p] = b]
    /\ flip' = [flip EXCEPT ![p] = Flip(a, b)]
    /\ tup' = [tup EXCEPT ![p] = Tup(a, b)]
    /\ dist' = [dist EXCEPT ![p] = uncached_distance(a, b)]
    /\ solved' = [solved EXCEPT ![p] = {Tup(a, b)}]
    /\ pc' = [pc EXCEPT ![p] = "done"]
    /\ cache' = CacheInsert(cache, Tup(a, b), uncached_distance(a, b))
    /\ UNCHANGED <<pair, config, lock>>

\* lib.rs:123-149  a whole call of the synchronous uncached_distance
Uncached(p, a, b) ==
    /\ pc[p] \in {"idle", "done"}
    /\ calls < MaxCalls
    /\ calls' = calls + 1
    /\ kind' = [kind EXCEPT ![p] = "uncached_distance"]
    /\ a_pos' = [a_pos EXCEPT ![p] = a]
    /\ b_pos' = [b_pos EXCEPT ![p] = b]
    /\ flip' = [flip EXCEPT ![p] = Flip(a, b)]
    /\ tup' = [tup EXCEPT ![p] = Tup(a, b)]
    /\ dist' = [dist EXCEPT ![p] = uncached_distance(a, b)]
    /\ solved' = [solved EXCEPT ![p] = {Tup(a, b)}]
    /\ pc' = [pc EXCEPT ![p] = "done"]
    /\ UNCHANGED <<pair, config, cache, lock>>

(* ------------------------- time and maintenance ------------------------ *)

\* TickSecs seconds pass
Tick ==
    /\ \E k \in DOMAIN cache : cache[k].idle < IdleCap(config)
    /\ cache' = CacheAge(config, cache, TickSecs)
    /\ UNCHANGED <<pair, config, lock, pc, kind, locals, dist, solved, calls>>

\* the cache's background maintenance removes the expired entries
Housekeep ==
    /\ \E k \in DOMAIN cache : Expired(config, cache[k])
    /\ cache' = CachePurge(config, cache)
    /\ UNCHANGED <<pair, config, lock, pc, kind, locals, dist, solved, calls>>

(* --------------------------- specification ----------------------------- *)

Next ==
    \/ \E p \in Procs, ab \in CallArgs : Start(p, ab[1], ab[2])
    \/ \E p \in Procs : ReadAcquire(p)
    \/ \E p \in Procs : ReadGranted(p)
    \/ \E p \in Procs : Get(p)
    \/ \E p \in Procs : HitReturn(p)
    \/ \E p \in Procs : MissDrop(p)
    \/ \E p \in Procs : Solve(p)
    \/ \E p \in Procs : WriteAcquire(p)
    \/ \E p \in Procs : WriteGranted(p)
    \/ \E p \in Procs : Insert(p)
    \/ \E p \in Procs : WriteDrop(p)
    \/ \E p \in Procs : Return(p)
    \/ \E p \in Procs, ab \in CallArgs : Uncached(p, ab[1], ab[2])
    \/ Tick
    \/ Housekeep

Spec == Init /\ [][Next]_vars

(* ------------------------------ claims --------------------------------- *)

\* a caller has returned from a call of distance
Returned(p) == pc[p] = "done" /\ kind[p] = "distance"

\* the caller's returned call invoked the solver (it took the miss path)
Missed(p) == Returned(p) /\ solved[p] # {}

\* both arguments of the caller's call are valid positions
ValidCall(p) == ValidPosition(a_pos[p]) /\ ValidPosition(b_pos[p])

\* C1 (as claimed): Symmetry. Whenever one call distance(A,B) and one call
\* distance(B,A), on valid positions A and B that are not bit-identical, have
\* both returned, their distances are equal and the forward azimuth of each is
\* the backward azimuth of the other.
C1_Symmetry ==
    \A p \in Procs, q \in Procs :
        (/\ Returned(p) /\ Returned(q) /\ ValidCall(p)
         /\ ~PositionEq(a_pos[p], b_pos[p])
         /\ a_pos[p] = b_pos[q] /\ b_pos[p] = a_pos[q])
        => /\ dist[p].distance = dist[q].distance
           /\ dist[p].forward_azimuth = dist[q].backward_azimuth
           /\ dist[p].backward_azimuth = dist[q].forward_azimuth

\* C2 (as claimed): Canonical-key uniqueness. The cache never holds both key
\* (P,Q) and key (Q,P) for two valid positions P, Q that are not bit-identical.
C2_CanonicalKeyUnique ==
    \A k \in DOMAIN cache :
        (~PositionEq(k[1], k[2]) /\ ValidPosition(k[1]) /\ ValidPosition(k[2]))
        => <<k[2], k[1]>> \notin DOMAIN cache

\* C3: Cache transparency. Every value distance(A,B) returns, on a hit as on a
\* miss and in every cache state, is the value uncached_distance(A,B) returns.
C3_CacheTransparency ==
    \A p \in Procs :
        Returned(p) => dist[p] = uncached_distance(a_pos[p], b_pos[p])

\* C3 witness: a call with flipped arguments has returned from the hit path.
C3_Witness ==
    \E p \in Procs : Returned(p) /\ solved[p] = {} /\ flip[p]

\* C4 (as claimed): Memoization. When a call distance(A,B) has returned and
\* its entry is still live, a later lookup by distance(A,B) or distance(B,A)
\* on valid positions, made while no other call is in flight, hits, so the
\* call returns without invoking the solver.
C4_Memoization ==
    [][\A p \in Procs, q \in Procs :
        (/\ Get(p) /\ q # p /\ Returned(q) /\ ValidCall(p)
         /\ \A r \in Procs \ {p} : pc[r] \in {"idle", "done"}
         /\ {a_pos[q], b_pos[q]} = {a_pos[p], b_pos[p]}
         /\ Live(config, cache, tup[q]))
        => pc'[p] = "hit"]_vars

\* C5: Concurrent correctness. Under every interleaving each returned call
\* holds the solver's result for its canonical pair, oriented by its own flip;
\* calls with the same arguments return the same value however many of them
\* invoked the solver; and every cache entry is a whole solver result for its
\* own key.
C5_ConcurrentCorrect ==
    /\ \A p \in Procs :
          Returned(p) =>
              dist[p] = swap_azimuth(DistanceData(Inverse(tup[p][1], tup[p][2])), flip[p])
    /\ \A p \in Procs, q \in Procs :
          (Returned(p) /\ Returned(q) /\ a_pos[p] = a_pos[q] /\ b_pos[p] = b_pos[q])
          => dist[p] = dist[q]
    /\ \A k \in DOMAIN cache : cache[k].value = DistanceData(Inverse(k[1], k[2]))

\* C5 witness: two calls with the same flipped arguments ran concurrently,
\* both missed, both invoked the solver, and both have returned.
C5_Witness ==
    \E p \in Procs, q \in Procs :
        /\ p # q /\ Missed(p) /\ Missed(q) /\ flip[p]
        /\ a_pos[p] = a_pos[q] /\ b_pos[p] = b_pos[q]

\* C6 (as claimed): Failure handling. A call with an invalid (non-finite)
\* position returns a failure, and no cache key holds an invalid position.
C6_FailureNotCached ==
    /\ \A p \in Procs :
          (pc[p] = "done" /\ kind[p] # "none" /\ ~ValidCall(p))
          => dist[p].distance \in {<<"InvalidInput">>, <<"SolverFailure">>}
    /\ \A k \in DOMAIN cache : ValidPosition(k[1]) /\ ValidPosition(k[2])

\* C7: Idle eviction. A lookup of a key whose entry has been idle for longer
\* than the time-to-idle misses (and the call goes on to the solver); a lookup
\* that hits and an insert each leave the key's idle time at zero.
C7_IdleEviction ==
    [][\A p \in Procs :
        /\ (/\ Get(p) /\ tup[p] \in DOMAIN cache
            /\ cache[tup[p]].idle > config.time_to_idle)
           => pc'[p] = "miss"
        /\ (Get(p) /\ pc'[p] = "hit") => cache'[tup[p]].idle = 0
        /\ Insert(p) => cache'[tup[p]].idle = 0]_vars

\* C7 witness: a lookup has just missed on a key whose entry is still in the
\* cache but has been idle for longer than the time-to-idle.
C7_Witness ==
    \E p \in Procs :
        /\ pc[p] = "miss" /\ tup[p] \in DOMAIN cache
        /\ cache[tup[p]].idle > config.time_to_idle

\* some call in flight can take its next step
Progress ==
    \E p \in Procs :
        \/ ReadAcquire(p) \/ ReadGranted(p) \/ Get(p) \/ HitReturn(p)
        \/ MissDrop(p) \/ Solve(p) \/ WriteAcquire(p) \/ WriteGranted(p)
        \/ Insert(p) \/ WriteDrop(p) \/ Return(p)

\* C8: No deadlock. Whenever some call of distance is in flight (in
\* particular waiting for the read or the write lock), some call can take a
\* step; and a call that has missed never waits for the write lock while
\* holding its own read guard.
C8_NoDeadlock ==
    /\ (\E p \in Procs : pc[p] \notin {"idle", "done"}) => ENABLED Progress
    /\ \A p \in Procs : pc[p] \in {"write", "write_wait"} => p \notin readers

\* C8 witness: a call that missed is queued for the write lock while another
\* call holds a read guard.
C8_Witness ==
    \E p \in Procs : pc[p] = "write_wait" /\ readers # {}

\* a step that is a whole call of uncached_distance by caller p
UncachedStep(p) ==
    /\ calls' = calls + 1
    /\ pc'[p] = "done"
    /\ kind'[p] = "uncached_distance"

\* C9: uncached_distance bypasses the cache. A call of uncached_distance
\* leaves the cache, its configuration and the lock as they were; and its
\* result is what a call of distance with the same arguments returns from the
\* miss path, from a solver invocation on the same pair.
C9_UncachedBypass ==
    /\ [][\A p \in Procs :
            UncachedStep(p) => /\ cache' = cache
                               /\ config' = config
                               /\ lock' = lock]_vars
    /\ [](\A p \in Procs, q \in Procs :
            (/\ pc[p] = "done" /\ kind[p] = "uncached_distance" /\ Missed(q)
             /\ a_pos[p] = a_pos[q] /\ b_pos[p] = b_pos[q])
            => dist[p] = dist[q] /\ solved[p] = solved[q])

\* C9 witness: an uncached_distance call and a distance call that missed,
\* both with the same flipped arguments, have returned.
C9_Witness ==
    \E p \in Procs, q \in Procs :
        /\ pc[p] = "done" /\ kind[p] = "uncached_distance" /\ Missed(q)
        /\ a_pos[p] = a_pos[q] /\ b_pos[p] = b_pos[q] /\ flip[p]
        /\ cache # <<>>

\* C10 (as claimed): the cache's configuration is, in every state, idle time
\* 90 seconds, initial capacity 64 and maximum capacity 65536.
C10_Config ==
    config = [time_to_idle |-> 90, initial_capacity |-> 64,
              max_capacity |-> 65536]

\* C11 (as claimed): every solver invocation of distance and of
\* uncached_distance is on a pair (low, high) with low <= high and never with
\* low > high; a call of distance solves on exactly its own tup, so the second
\* canonicalization inside uncached_distance does not flip it.
C11_SolverOnCanonical ==
    \A p \in Procs :
        \A s \in solved[p] :
            /\ PositionLe(s[1], s[2])
            /\ ~PositionGt(s[1], s[2])
            /\ kind[p] = "distance" => s = tup[p]

\* C12: the persisted entry is never swapped. In every state the value stored
\* under key (low, high) is the solver's result for (low, high), forward
\* azimuth low->high and backward azimuth high->low; the steps that apply
\* swap_azimuth (the hit arm and the final return) leave the cache as it was;
\* and a lookup that hits reads the unswapped result whatever callers came
\* before it.
C12_EntryNeverSwapped ==
    /\ [](\A k \in DOMAIN cache :
            /\ cache[k].value.distance = Inverse(k[1], k[2]).s12
            /\ cache[k].value.forward_azimuth = Inverse(k[1], k[2]).azi_1
            /\ cache[k].value.backward_azimuth = Inverse(k[1], k[2]).azi_2)
    /\ [][\A p \in Procs :
            /\ (HitReturn(p) \/ Return(p)) => cache' = cache
            /\ (Get(p) /\ pc'[p] = "hit")
               => dist'[p] = DistanceData(Inverse(tup[p][1], tup[p][2]))]_vars

\* C12 witness: a caller with flipped arguments has missed, inserted, swapped
\* its own copy and returned, and another caller has just read that entry.
C12_Witness ==
    \E p \in Procs, q \in Procs :
        /\ p # q /\ Missed(p) /\ flip[p]
        /\ pc[q] = "hit" /\ tup[q] = tup[p]

\* the callers queued for the lock
Queued == {waiters[i][1] : i \in 1..Len(waiters)}

\* C13: no lock is held across the solver call. A caller that is about to run
\* the solver holds neither guard and is not queued for one; whoever holds a
\* read guard has not run the solver yet, and whoever holds the write guard
\* has already run it.
C13_NoLockAcrossSolve ==
    \A p \in Procs :
        /\ pc[p] = "solve" => (p \notin readers /\ p \notin writer /\ p \notin Queued)
        /\ p \in readers => solved[p] = {}
        /\ p \in writer => solved[p] # {}

\* C13 witness: one caller is at the solver call while another caller holds
\* the write guard and inserts.
C13_Witness ==
    \E p \in Procs, q \in Procs :
        /\ p # q /\ pc[p] = "solve" /\ pc[q] = "insert" /\ q \in writer

\* C14: a hit performs no write. The lookup that finds an entry hands the
\* caller the stored value, and the hit arm returns it, swapped if flip; over
\* both steps the cache keeps its key set and its stored values, and the
\* caller neither holds nor requests the write guard.
C14_HitNoWrite ==
    [][\A p \in Procs :
        /\ (Get(p) /\ pc'[p] = "hit") => dist'[p] = cache[tup[p]].value
        /\ HitReturn(p) => /\ dist'[p] = swap_azimuth(dist[p], flip[p])
                           /\ pc'[p] = "done"
        /\ ((Get(p) /\ pc'[p] = "hit") \/ HitReturn(p))
           => /\ DOMAIN cache' = DOMAIN cache
              /\ \A k \in DOMAIN cache : cache'[k].value = cache[k].value
              /\ writer' = writer /\ p \notin writer'
              /\ waiters' = waiters]_vars

\* C14 witness: a call has returned from the hit arm (it never invoked the
\* solver), the entry it read is in the cache, and nobody holds the write guard.
C14_Witness ==
    \E p \in Procs :
        /\ Returned(p) /\ solved[p] = {}
        /\ tup[p] \in DOMAIN cache /\ writer = {}

\* a caller has started a call, so its flip and tup are computed
Canonicalized(p) == kind[p] # "none"

\* C15 (as claimed): the canonicalizer contract. For the arguments A, B of
\* every call, flip is (A > B), tup is (B, A) if flip and (A, B) otherwise,
\* tup always satisfies low <= high, and bit-identical A and B give flip
\* false and tup (A, A).
C15_Canonicalizer ==
    \A p \in Procs :
        Canonicalized(p) =>
            /\ flip[p] = PositionGt(a_pos[p], b_pos[p])
            /\ tup[p] = IF flip[p] THEN <<b_pos[p], a_pos[p]>>
                                   ELSE <<a_pos[p], b_pos[p]>>
            /\ PositionLe(tup[p][1], tup[p][2])
            /\ PositionEq(a_pos[p], b_pos[p])
               => (~flip[p] /\ tup[p] = <<a_pos[p], a_pos[p]>>)

\* the number of the given conditions that hold
CountTrue(conds) == Cardinality({i \in 1..Len(conds) : conds[i]})

\* C16 (as claimed): the order used for canonicalization is total and agrees
\* with the bit-exact equality. For the valid arguments A, B of every call
\* exactly one of A < B, A == B (identical bit patterns), A > B holds.
C16_TotalOrder ==
    \A p \in Procs :
        (Canonicalized(p) /\ ValidCall(p)) =>
            CountTrue(<<PositionLt(a_pos[p], b_pos[p]),
                        PositionEq(a_pos[p], b_pos[p]),
                        PositionGt(a_pos[p], b_pos[p])>>) = 1

\* C17: swap_azimuth. In the steps of distance that apply it, with should_swap
\* true the call's forward and backward azimuth are exchanged and its distance
\* is unchanged, with should_swap false nothing changes; and on every value a
\* call holds, applying it twice with true gives the value back.
C17_SwapAzimuth ==
    /\ [][\A p \in Procs :
            (HitReturn(p) \/ Return(p)) =>
                /\ dist'[p].distance = dist[p].distance
                /\ IF flip[p]
                   THEN /\ dist'[p].forward_azimuth = dist[p].backward_azimuth
                        /\ dist'[p].backward_azimuth = dist[p].forward_azimuth
                   ELSE dist'[p] = dist[p]]_vars
    /\ [](\A p \in Procs :
            /\ swap_azimuth(swap_azimuth(dist[p], TRUE), TRUE) = dist[p]
            /\ swap_azimuth(dist[p], FALSE) = dist[p]
            /\ swap_azimuth(dist[p], TRUE).distance = dist[p].distance)

\* C17 witness: a call with flipped arguments has returned, and its forward
\* azimuth is the solver's second azimuth, its backward azimuth the first.
C17_Witness ==
    \E p \in Procs :
        /\ Returned(p) /\ flip[p]
        /\ dist[p].forward_azimuth = Inverse(tup[p][1], tup[p][2]).azi_2
        /\ dist[p].backward_azimuth = Inverse(tup[p][1], tup[p][2]).azi_1
        /\ dist[p].forward_azimuth # dist[p].backward_azimuth

\* C18: no single-flight, and the duplicate work is harmless. No step changes
\* the value stored under a key that stays in the cache; in particular an
\* insert over a key that already has an entry, as the later of two callers
\* that both missed performs, stores the value that is already there.
C18_NoSingleFlight ==
    [][/\ \A k \in DOMAIN cache \cap DOMAIN cache' :
             cache'[k].value = cache[k].value
       /\ \A p \in Procs :
             Insert(p) => /\ cache'[tup[p]].value = dist[p]
                          /\ tup[p] \in DOMAIN cache
                             => dist[p] = cache[tup[p]].value]_vars

\* C18 witness: two callers missed on the same uncached key and both invoked
\* the solver; one has inserted and still holds the write guard, the other is
\* queued for the write guard to insert in its turn.
C18_Witness ==
    \E p \in Procs, q \in Procs :
        /\ p # q /\ tup[p] = tup[q]
        /\ solved[p] # {} /\ solved[q] # {}
        /\ pc[p] = "inserted" /\ pc[q] = "write_wait"

\* the next step of caller p's call of distance, whichever it is
CallStep(p) ==
    \/ ReadAcquire(p) \/ ReadGranted(p) \/ Get(p) \/ HitReturn(p)
    \/ MissDrop(p) \/ Solve(p) \/ WriteAcquire(p) \/ WriteGranted(p)
    \/ Insert(p) \/ WriteDrop(p) \/ Return(p)

\* The program under fair scheduling: the runtime keeps polling every caller
\* that can take a step, and the solver terminates.
FairSpec == Spec /\ \A p \in Procs : WF_vars(CallStep(p))

\* C19: liveness of population. Under fair scheduling every call that misses
\* eventually returns, having invoked the solver; its insert leaves an entry
\* under its key; and an entry leaves the cache only by eviction of an expired
\* entry, so absent eviction the key is populated once the calls have returned.
C19_PopulationLive ==
    /\ \A p \in Procs : (pc[p] = "miss") ~> Missed(p)
    /\ [][\A p \in Procs : Insert(p) => tup[p] \in DOMAIN cache']_vars
    /\ [][\A k \in DOMAIN cache :
            k \notin DOMAIN cache' => Expired(config, cache[k])]_vars

\* C19 witness: two callers that passed the pair in opposite orders both
\* missed on the same key, both have returned, and the key has a live entry.
C19_Witness ==
    \E p \in Procs, q \in Procs :
        /\ Missed(p) /\ Missed(q) /\ tup[p] = tup[q]
        /\ a_pos[p] = b_pos[q] /\ b_pos[p] = a_pos[q] /\ a_pos[p] # b_pos[p]
        /\ Live(config, cache, tup[p])

\* C20: lookups and inserts exclude each other. A caller at its lookup holds a
\* read guard and a caller at its insert holds the write guard; whoever holds
\* the write guard holds it alone, with no reader beside it; a key enters the
\* cache only by the insert of the caller holding the write guard; and no step
\* of a caller ever removes a key (only the cache's own expiry does).
C20_MutualExclusion ==
    /\ [](\A p \in Procs :
            /\ pc[p] \in {"get", "hit", "miss"} => p \in readers
            /\ pc[p] \in {"insert", "inserted"} => p \in writer
            /\ p \in writer => (writer = {p} /\ readers = {}))
    /\ [][/\ \A k \in DOMAIN cache' \ DOMAIN cache :
                \E p \in writer : pc[p] = "insert" /\ k = tup[p]
          /\ (DOMAIN cache \ DOMAIN cache' # {})
                => (pc' = pc /\ lock' = lock)]_vars

\* C20 witness: one caller holds the write guard and has inserted while
\* another caller's read() waits in the queue.
C20_Witness ==
    \E p \in Procs, q \in Procs :
        /\ p # q /\ p \in writer /\ pc[p] = "inserted"
        /\ pc[q] = "read_wait" /\ tup[p] \in DOMAIN cache

====
